---- MODULE Spec2Model ----
(***************************************************************************)
(* Model of src/app.py: the two request handlers (lookup_direct,           *)
(* upload_excel), the chunked driver process_api_calls and the single      *)
(* remote call check_business_registration.                                *)
(*                                                                         *)
(* Python values are tagged records so that None, a str, a list and a dict *)
(* stay distinct: [t |-> "None"], [t |-> "str", v |-> <<chars/segments>>], *)
(* [t |-> "list", v |-> <<...>>], [t |-> "dict", v |-> [key |-> value]].   *)
(* A str is a sequence of one-character strings; a literal piece of a      *)
(* message of the source is kept as one named segment.                     *)
(***************************************************************************)
EXTENDS Integers, Sequences, FiniteSets, TLC

VARIABLES
    pc,             \* position of the request being served
    route,          \* "none" | "lookup_direct" | "upload_excel"
    env_key,        \* os.environ.get("NTS_SERVICE_KEY")
    form_lines,     \* request.form['business_numbers'].splitlines()
    upload_file,    \* what request.files['excel_file'] turns out to be
    file_cells,     \* first column of the uploaded sheet
    examined,       \* TRUE once the handler has read the request's input
    b_numbers_raw,  \* raw tokens the comprehension iterates over
    b_numbers,      \* normalized identifiers
    idx,            \* position of the for loop over b_number_chunks
    all_results,    \* running aggregate of process_api_calls
    calls,          \* remote calls issued so far, in order
    responses,      \* what each remote call met, in order
    core_ret,       \* how process_api_calls ended
    outcome         \* what the handler answered

vars == <<pc, route, env_key, form_lines, upload_file, file_cells, examined,
          b_numbers_raw, b_numbers, idx, all_results, calls, responses,
          core_ret, outcome>>

-----------------------------------------------------------------------------
\* Bounds of the model.

\* longest raw token enumerated character by character
MaxTokLen == 3
\* longest generated identifier list
MaxLen == 300

-----------------------------------------------------------------------------
\* Python values.

PyNone == [t |-> "None"]
PyStr(s) == [t |-> "str", v |-> s]
PyList(l) == [t |-> "list", v |-> l]
PyDict(d) == [t |-> "dict", v |-> d]

\* bool(x) of Python for None, str, list, dict
Truthy(x) ==
    CASE x.t = "None" -> FALSE
      [] x.t = "dict" -> DOMAIN x.v # {}
      [] OTHER -> Len(x.v) > 0

\* dict.get(key): the value, or None when the key is absent
Get(d, key) == IF key \in DOMAIN d.v THEN d.v[key] ELSE PyNone

Min(a, b) == IF a < b THEN a ELSE b

-----------------------------------------------------------------------------
\* Strings.

\* characters str.strip() takes for whitespace (those the model's tokens use)
Whitespace == {" ", "\t", "\n", "\r", "\f"}

RECURSIVE LStrip(_)
LStrip(s) ==
    IF s # <<>> /\ Head(s) \in Whitespace THEN LStrip(Tail(s)) ELSE s

RECURSIVE RStrip(_)
RStrip(s) ==
    IF s # <<>> /\ s[Len(s)] \in Whitespace
    THEN RStrip(SubSeq(s, 1, Len(s) - 1))
    ELSE s

\* num.strip()
Strip(num) == RStrip(LStrip(num))

\* s.replace(old, '') for a one-character old
RemoveChar(s, old) == SelectSeq(s, LAMBDA c : c # old)

DigitChars == <<"0", "1", "2", "3", "4", "5", "6", "7", "8", "9">>

\* str(n) of a non-negative int, as an f-string interpolates it
RECURSIVE IntToStr(_)
IntToStr(n) ==
    IF n < 10
    THEN <<DigitChars[n + 1]>>
    ELSE IntToStr(n \div 10) \o <<DigitChars[(n % 10) + 1]>>

\* the idiom  num.strip().replace('-', '').replace(' ', '')  of both handlers
NormalizeKeepsSpaces(num) == RemoveChar(Strip(num), "-")
Normalize(num) == RemoveChar(RemoveChar(Strip(num), "-"), " ")

\* the filter  if num.strip()  of both comprehensions
Keeps(num) == Len(Strip(num)) > 0

\* b_numbers of lookup_direct:  [normalize(num) for num in raw if num.strip()]
DirectNumbers(raw) ==
    LET kept == SelectSeq(raw, Keeps)
    IN  [i \in 1..Len(kept) |-> Normalize(kept[i])]

\* b_numbers of upload_excel, the same comprehension over the sheet's column
UploadNumbers(raw) ==
    LET kept == SelectSeq(raw, Keeps)
    IN  [i \in 1..Len(kept) |-> Normalize(kept[i])]

\* df.iloc[:, 0].dropna().astype(str): the cells that hold a value, as text
IsValue(cell) == ~cell.na
DropNaAsStr(cells) ==
    LET kept == SelectSeq(cells, IsValue)
    IN  [i \in 1..Len(kept) |-> kept[i].s]

-----------------------------------------------------------------------------
\* check_business_registration.

\* the keys of STATUS_CODE_MESSAGES
KnownCodes == {400, 404, 411, 413, 500}

\* STATUS_CODE_MESSAGES: each fixed message is one literal segment
STATUS_CODE_MESSAGES ==
    [c \in KnownCodes |->
        CASE c = 400 -> <<"400: malformed request">>
          [] c = 404 -> <<"404: API service not found">>
          [] c = 411 -> <<"411: required parameter missing">>
          [] c = 413 -> <<"413: more than 100 business numbers requested">>
          [] c = 500 -> <<"500: NTS API server error, retry later">>]

\* f"... (status code: {response.status_code})"
UnknownMessage(status_code) ==
    <<"unknown error (status code: ">> \o IntToStr(status_code) \o <<")">>

\* STATUS_CODE_MESSAGES.get(response.status_code, f"...")
StatusMessageNoCode(status_code) ==
    IF status_code \in KnownCodes
    THEN STATUS_CODE_MESSAGES[status_code]
    ELSE <<"unknown error">>
StatusMessage(status_code) ==
    IF status_code \in DOMAIN STATUS_CODE_MESSAGES
    THEN STATUS_CODE_MESSAGES[status_code]
    ELSE UnknownMessage(status_code)

\* f"network error (detail): {detailed_error}"
NetworkMessage(detailed_error) ==
    <<"network error (detail): ">> \o detailed_error

\* api_url and payload: the identifiers posted and the key in the query string
Payload(business_numbers, service_key) ==
    [b_no |-> business_numbers, serviceKey |-> service_key]

\* What one requests.post can meet: a RequestException carrying str(e), or a
\* response with a status code and, for 200, the value response.json() gives.
\* check_business_registration maps it to the value it returns.
check_business_registration(http) ==
    IF http.kind = "exception"
    THEN PyDict([error |-> PyStr(NetworkMessage(http.detail))])
    ELSE IF http.status_code = 200
         THEN http.json
         ELSE PyDict([error |-> PyStr(StatusMessage(http.status_code))])

-----------------------------------------------------------------------------
\* process_api_calls.

\* the 100 of  business_numbers[i:i + 100]  and  range(0, len, 100)
ChunkSize == 100

\* range(0, len(business_numbers), 100), in order
ChunkStarts(business_numbers) ==
    LET n == Cardinality({i \in 0..(Len(business_numbers) - 1) :
                             i % ChunkSize = 0})
    IN  [k \in 1..n |-> (k - 1) * ChunkSize]

\* business_numbers[i:j], a Python slice (j past the end is cut to the end)
SliceInclusive(s, i, j) == SubSeq(s, i + 1, Min(j + 1, Len(s)))
Slice(s, i, j) == SubSeq(s, i + 1, Min(j, Len(s)))

\* b_number_chunks
Chunks(business_numbers) ==
    LET starts == ChunkStarts(business_numbers)
    IN  [k \in 1..Len(starts) |->
            Slice(business_numbers, starts[k], starts[k] + ChunkSize)]

\* if api_response.get("error"):  -- AttributeError when api_response has no .get
HasGet(api_response) == api_response.t = "dict"
ReportsErrorKeyTypo(api_response) == Truthy(Get(api_response, "errors"))
ReportsError(api_response) == Truthy(Get(api_response, "error"))

\* return None, api_response["error"]
ErrorReturnPartial(api_response) ==
    [t |-> "return", results |-> PyList(all_results),
     error |-> Get(api_response, "error")]
ErrorReturn(api_response) ==
    [t |-> "return", results |-> PyNone, error |-> Get(api_response, "error")]

\* if api_response.get("data"): all_results.extend(api_response["data"])
ExtendedOverwrites(results, api_response) ==
    IF Truthy(Get(api_response, "data"))
    THEN Get(api_response, "data").v
    ELSE results
Extended(results, api_response) ==
    IF Truthy(Get(api_response, "data"))
    THEN results \o Get(api_response, "data").v
    ELSE results

\* return all_results, None
SuccessReturn(results) ==
    [t |-> "return", results |-> PyList(results), error |-> PyNone]

-----------------------------------------------------------------------------
\* The inputs the model draws from.

\* characters of the enumerated raw tokens: a digit, the two separators the
\* handlers remove, and a whitespace character that only strip() touches
TokChars == {"1", "-", " ", "\t"}

Tokens == UNION {[1..k -> TokChars] : k \in 0..MaxTokLen}

ShortTokens == {t \in Tokens : Len(t) <= 1}

\* "123-45-67890", " 12345 67890 ", "1234567890"
ExampleTokens ==
    << <<"1", "2", "3", "-", "4", "5", "-", "6", "7", "8", "9", "0">>,
       <<" ", "1", "2", "3", "4", "5", " ", "6", "7", "8", "9", "0", " ">>,
       <<"1", "2", "3", "4", "5", "6", "7", "8", "9", "0">> >>

\* "111-11-11111", "222-22-22222"
ExamplePair ==
    << <<"1", "1", "1", "-", "1", "1", "-", "1", "1", "1", "1", "1">>,
       <<"2", "2", "2", "-", "2", "2", "-", "2", "2", "2", "2", "2">> >>

\* a list of n distinct raw tokens, the i-th being " <i>"
LongList(n) == [i \in 1..n |-> <<" ">> \o IntToStr(i)]

\* lengths around every chunk boundary up to MaxLen
\* and the 250 of the three-chunk example
LongLens ==
    {n \in 1..MaxLen : n % ChunkSize \in {0, 1, ChunkSize - 1}} \cup {250}

RawLists ==
    {<<>>} \cup {<<t>> : t \in Tokens}
           \cup {<<t, u>> : t \in Tokens, u \in ShortTokens}
           \cup {ExampleTokens, ExamplePair}
           \cup {LongList(n) : n \in LongLens}

Cell(t) == [na |-> FALSE, s |-> t]
NaCell == [na |-> TRUE, s |-> <<>>]

\* sheets: every raw list as a column of text cells, and columns with a hole
Sheets ==
    {[i \in 1..Len(l) |-> Cell(l[i])] : l \in RawLists \ {<<>>}}
        \cup {<<NaCell>>}
        \cup {<<NaCell, Cell(t)>> : t \in ShortTokens}

\* what the upload can be: no file, a wrong name, a file read_excel rejects,
\* a sheet without rows, a sheet with rows
Uploads ==
    {[file |-> f, cells |-> <<>>] :
        f \in {"absent", "not_xlsx", "unreadable", "empty"}}
        \cup {[file |-> "ok", cells |-> c] : c \in Sheets}

\* os.environ.get("NTS_SERVICE_KEY"): unset, set to "", set to a key
EnvKeys == {PyNone, PyStr(<<>>), PyStr(<<"k", "e", "y">>)}

\* str(e) of the RequestException
Details == {<<"Read timed out.">>, <<"Connection refused">>}

\* status codes other than 200 the remote answers with
FailureCodes == KnownCodes \cup {503}

\* values response.json() gives for a 200 response: mappings with a data
\* array, with neither key, with an error entry (alone, beside data, empty),
\* and a JSON array
Bodies ==
    { PyDict([data |-> PyList(<<>>)]),
      PyDict([data |-> PyList(<<"r1">>)]),
      PyDict([data |-> PyList(<<"r1", "r2">>)]),
      PyDict([status_code |-> PyStr(<<"OK">>)]),
      PyDict([error |-> PyStr(<<"quota exceeded">>)]),
      PyDict([error |-> PyStr(<<"quota exceeded">>), data |-> PyList(<<"r1">>)]),
      PyDict([error |-> PyStr(<<>>), data |-> PyList(<<"r2">>)]),
      PyList(<<>>) }

HttpOutcomes ==
    {[kind |-> "exception", detail |-> d, status_code |-> 0, json |-> PyNone] :
        d \in Details}
    \cup {[kind |-> "response", detail |-> <<>>, status_code |-> c,
           json |-> PyNone] : c \in FailureCodes}
    \cup {[kind |-> "response", detail |-> <<>>, status_code |-> 200,
           json |-> b] : b \in Bodies}

-----------------------------------------------------------------------------
\* The handlers.

NoOutcome == [kind |-> "none", text |-> <<>>, results |-> <<>>]
Answer(kind, text, results) == [kind |-> kind, text |-> text, results |-> results]
NoReturn == [t |-> "running", results |-> PyNone, error |-> PyNone]
Raised == [t |-> "raise", results |-> PyNone, error |-> PyNone]

Init ==
    /\ pc = "idle"
    /\ route = "none"
    /\ env_key \in EnvKeys
    /\ form_lines = <<>>
    /\ upload_file = "absent"
    /\ file_cells = <<>>
    /\ examined = FALSE
    /\ b_numbers_raw = <<>>
    /\ b_numbers = <<>>
    /\ idx = 1
    /\ all_results = <<>>
    /\ calls = <<>>
    /\ responses = <<>>
    /\ core_ret = NoReturn
    /\ outcome = NoOutcome

\* if not my_service_key
KeyMissingIsNone(my_service_key) == my_service_key.t = "None"
KeyMissing(my_service_key) == ~Truthy(my_service_key)

\* if not b_numbers
NothingToLookUp(numbers) == Len(numbers) = 0

\* POST /lookup-direct arrives with its form text
RequestDirect ==
    /\ pc = "idle"
    /\ \E lines \in RawLists :
        /\ form_lines' = lines
        /\ route' = "lookup_direct"
        /\ pc' = "key"
    /\ UNCHANGED <<env_key, upload_file, file_cells, examined, b_numbers_raw,
                   b_numbers, idx, all_results, calls, responses, core_ret,
                   outcome>>

\* POST /upload-excel arrives with its file
RequestUpload ==
    /\ pc = "idle"
    /\ \E u \in Uploads :
        /\ upload_file' = u.file
        /\ file_cells' = u.cells
        /\ route' = "upload_excel"
        /\ pc' = "key"
    /\ UNCHANGED <<env_key, form_lines, examined, b_numbers_raw, b_numbers,
                   idx, all_results, calls, responses, core_ret, outcome>>

\* lookup_direct, the credential guard
LookupDirectKey ==
    /\ pc = "key" /\ route = "lookup_direct"
    /\ IF KeyMissing(env_key)
       THEN /\ outcome' = Answer("render_error", <<"no service key">>, <<>>)
            /\ pc' = "done"
       ELSE /\ pc' = "parse"
            /\ UNCHANGED outcome
    /\ UNCHANGED <<route, env_key, form_lines, upload_file, file_cells,
                   examined, b_numbers_raw, b_numbers, idx, all_results,
                   calls, responses, core_ret>>

\* lookup_direct, reading and normalizing the form text, the empty-input guard
LookupDirectParse ==
    /\ pc = "parse" /\ route = "lookup_direct"
    /\ examined' = TRUE
    /\ b_numbers_raw' = form_lines
    /\ b_numbers' = DirectNumbers(form_lines)
    /\ IF NothingToLookUp(DirectNumbers(form_lines))
       THEN /\ outcome' = Answer("render_error", <<"enter numbers">>, <<>>)
            /\ pc' = "done"
       ELSE /\ pc' = "core"
            /\ UNCHANGED outcome
    /\ UNCHANGED <<route, env_key, form_lines, upload_file, file_cells, idx,
                   all_results, calls, responses, core_ret>>

\* upload_excel, the credential guard
UploadKey ==
    /\ pc = "key" /\ route = "upload_excel"
    /\ IF KeyMissing(env_key)
       THEN /\ outcome' = Answer("flash", <<"no service key">>, <<>>)
            /\ pc' = "done"
       ELSE /\ pc' = "file"
            /\ UNCHANGED outcome
    /\ UNCHANGED <<route, env_key, form_lines, upload_file, file_cells,
                   examined, b_numbers_raw, b_numbers, idx, all_results,
                   calls, responses, core_ret>>

\* upload_excel, the file guards, read_excel and the df.empty guard
UploadFile ==
    /\ pc = "file" /\ route = "upload_excel"
    /\ examined' = TRUE
    /\ IF upload_file = "ok"
       THEN /\ pc' = "parse"
            /\ UNCHANGED outcome
       ELSE /\ pc' = "done"
            /\ outcome' =
                Answer("flash",
                       CASE upload_file = "absent" -> <<"choose a file">>
                         [] upload_file = "not_xlsx" -> <<"only .xlsx">>
                         [] upload_file = "unreadable" ->
                                <<"file processing error: ">>
                         [] OTHER -> <<"file is empty">>,
                       <<>>)
    /\ UNCHANGED <<route, env_key, form_lines, upload_file, file_cells,
                   b_numbers_raw, b_numbers, idx, all_results, calls,
                   responses, core_ret>>

\* upload_excel, reading and normalizing the first column, the empty guard
UploadParse ==
    /\ pc = "parse" /\ route = "upload_excel"
    /\ b_numbers_raw' = DropNaAsStr(file_cells)
    /\ b_numbers' = UploadNumbers(DropNaAsStr(file_cells))
    /\ IF NothingToLookUp(UploadNumbers(DropNaAsStr(file_cells)))
       THEN /\ outcome' = Answer("flash", <<"no valid numbers">>, <<>>)
            /\ pc' = "done"
       ELSE /\ pc' = "core"
            /\ UNCHANGED outcome
    /\ UNCHANGED <<route, env_key, form_lines, upload_file, file_cells,
                   examined, idx, all_results, calls, responses, core_ret>>

\* process_api_calls, one turn of the loop: the remote call for the next chunk
\* and what the loop does with its answer
CallRemote ==
    /\ pc = "core"
    /\ idx <= Len(Chunks(b_numbers))
    /\ \E http \in HttpOutcomes :
        LET chunk == Chunks(b_numbers)[idx]
            api_response == check_business_registration(http)
        IN  /\ calls' = Append(calls, Payload(chunk, env_key))
            /\ responses' = Append(responses, http)
            /\ IF ~HasGet(api_response)
               THEN /\ core_ret' = Raised
                    /\ pc' = "render"
                    /\ UNCHANGED <<idx, all_results>>
               ELSE IF ReportsError(api_response)
               THEN /\ core_ret' = ErrorReturn(api_response)
                    /\ pc' = "render"
                    /\ UNCHANGED <<idx, all_results>>
               ELSE /\ all_results' = Extended(all_results, api_response)
                    /\ idx' = idx + 1
                    /\ UNCHANGED <<core_ret, pc>>
    /\ UNCHANGED <<route, env_key, form_lines, upload_file, file_cells,
                   examined, b_numbers_raw, b_numbers, outcome>>

\* process_api_calls, the loop is exhausted
CoreReturn ==
    /\ pc = "core"
    /\ idx > Len(Chunks(b_numbers))
    /\ core_ret' = SuccessReturn(all_results)
    /\ pc' = "render"
    /\ UNCHANGED <<route, env_key, form_lines, upload_file, file_cells,
                   examined, b_numbers_raw, b_numbers, idx, all_results,
                   calls, responses, outcome>>

\* lookup_direct after process_api_calls: an exception leaves the handler,
\* an error is rendered, otherwise the results are
LookupDirectRender ==
    /\ pc = "render" /\ route = "lookup_direct"
    /\ outcome' =
        IF core_ret.t = "raise"
        THEN Answer("unhandled_exception", <<"AttributeError">>, <<>>)
        ELSE IF Truthy(core_ret.error)
        THEN Answer("render_error", <<"API call error: ">> \o core_ret.error.v,
                    <<>>)
        ELSE Answer("render_results", <<>>, core_ret.results.v)
    /\ pc' = "done"
    /\ UNCHANGED <<route, env_key, form_lines, upload_file, file_cells,
                   examined, b_numbers_raw, b_numbers, idx, all_results,
                   calls, responses, core_ret>>

\* upload_excel after process_api_calls: the except clause flashes an
\* exception, an error is flashed, no result is flashed, otherwise the
\* results are sent as a file
UploadRender ==
    /\ pc = "render" /\ route = "upload_excel"
    /\ outcome' =
        IF core_ret.t = "raise"
        THEN Answer("flash", <<"file processing error: ", "AttributeError">>,
                    <<>>)
        ELSE IF Truthy(core_ret.error)
        THEN Answer("flash", <<"API call error: ">> \o core_ret.error.v, <<>>)
        ELSE IF ~Truthy(core_ret.results)
        THEN Answer("flash", <<"no results">>, <<>>)
        ELSE Answer("send_file", <<>>, core_ret.results.v)
    /\ pc' = "done"
    /\ UNCHANGED <<route, env_key, form_lines, upload_file, file_cells,
                   examined, b_numbers_raw, b_numbers, idx, all_results,
                   calls, responses, core_ret>>

Next ==
    \/ RequestDirect
    \/ RequestUpload
    \/ LookupDirectKey
    \/ LookupDirectParse
    \/ UploadKey
    \/ UploadFile
    \/ UploadParse
    \/ CallRemote
    \/ CoreReturn
    \/ LookupDirectRender
    \/ UploadRender

Spec == Init /\ [][Next]_vars

-----------------------------------------------------------------------------
\* Vocabulary of the properties.

\* a remote call failed: a transport failure or a non-200 response
IsFailure(http) == http.kind = "exception" \/ http.status_code # 200

\* a remote call succeeded: a 200 response whose body is a mapping that
\* reports no error
IsSuccess(http) ==
    /\ http.kind = "response"
    /\ http.status_code = 200
    /\ http.json.t = "dict"
    /\ ~Truthy(Get(http.json, "error"))

\* a success whose body holds a data array
HasDataArray(http) ==
    /\ IsSuccess(http)
    /\ "data" \in DOMAIN http.json.v
    /\ http.json.v["data"].t = "list"

SomeFailure == \E i \in 1..Len(responses) : IsFailure(responses[i])
AllSuccess == \A i \in 1..Len(responses) : IsSuccess(responses[i])
CoreEnded == core_ret.t # "running"

CeilDiv(n, d) == (n + d - 1) \div d

\* the identifiers at positions 100(k-1)+1 .. 100k of the list handed over
PositionalChunk(k) ==
    SubSeq(b_numbers, 100 * (k - 1) + 1, Min(100 * k, Len(b_numbers)))

RECURSIVE Flatten(_)
Flatten(ss) == IF ss = <<>> THEN <<>> ELSE Head(ss) \o Flatten(Tail(ss))

Payloads == [i \in 1..Len(calls) |-> calls[i].b_no]
DataArrays == [i \in 1..Len(responses) |-> responses[i].json.v["data"].v]

Contains(s, sub) ==
    \E i \in 1..(Len(s) - Len(sub) + 1) : SubSeq(s, i, i + Len(sub) - 1) = sub

\* the three decimal digits of a status code
ThreeDigits(c) ==
    <<DigitChars[(c \div 100) + 1], DigitChars[((c \div 10) % 10) + 1],
      DigitChars[(c % 10) + 1]>>

\* a token cut to the span from its first to its last non-whitespace
\* character, without the hyphens and spaces inside the span
RefNormalize(t) ==
    LET solid == {i \in 1..Len(t) : t[i] \notin Whitespace}
    IN  IF solid = {}
        THEN <<>>
        ELSE LET lo == CHOOSE i \in solid : \A j \in solid : i <= j
                 hi == CHOOSE i \in solid : \A j \in solid : j <= i
                 span == {i \in lo..hi : t[i] \notin {"-", " "}}
                 RECURSIVE Pick(_)
                 Pick(i) == IF i > hi THEN <<>>
                            ELSE (IF i \in span THEN <<t[i]>> ELSE <<>>)
                                     \o Pick(i + 1)
             IN  Pick(lo)

RefNumbers(raw) ==
    LET solid(t) == \E i \in 1..Len(t) : t[i] \notin Whitespace
        kept == SelectSeq(raw, solid)
    IN  [i \in 1..Len(kept) |-> RefNormalize(kept[i])]

TenDigits == <<"1", "2", "3", "4", "5", "6", "7", "8", "9", "0">>

-----------------------------------------------------------------------------
\* Properties.

\* C1: for an input list of length n >= 1, when every remote call succeeds,
\* process_api_calls issues exactly ceil(n/100) remote calls, each carrying
\* between 1 and 100 identifiers, and the payloads of the calls concatenated
\* in the order issued are exactly the input list.
C1_ChunkingCoversInput ==
    (CoreEnded /\ AllSuccess) =>
        /\ Len(b_numbers) >= 1
        /\ Len(calls) = CeilDiv(Len(b_numbers), 100)
        /\ \A k \in 1..Len(calls) :
              Len(calls[k].b_no) >= 1 /\ Len(calls[k].b_no) <= 100
        /\ Flatten(Payloads) = b_numbers

C1_Witness ==
    /\ CoreEnded /\ AllSuccess
    /\ Len(b_numbers) = 201
    /\ Len(calls) = 3

\* C2: fail-fast ordering: the k-th remote call carries the k-th chunk (in
\* sequence order, none twice), a failed call is the last call of the
\* invocation, so a failure on chunk k leaves exactly k calls made.
C2_FailFastOrdering ==
    /\ Len(calls) = Len(responses)
    /\ \A k \in 1..Len(calls) : calls[k].b_no = PositionalChunk(k)
    /\ \A k \in 1..Len(responses) :
          IsFailure(responses[k]) => k = Len(calls)

C2_Witness ==
    /\ pc = "done"
    /\ Len(b_numbers) = 250
    /\ Len(calls) = 2
    /\ IsSuccess(responses[1])
    /\ responses[2].status_code = 500

\* C3 as stated: whenever a chunk's remote call fails, process_api_calls
\* returns (empty, error): the record list returned is an empty sequence
\* and the error is a non-empty message.
C3_ReturnsEmptySequence ==
    (CoreEnded /\ SomeFailure) =>
        /\ core_ret.t = "return"
        /\ core_ret.results.t = "list"
        /\ Len(core_ret.results.v) = 0
        /\ Truthy(core_ret.error)

\* C3 amended: whenever a chunk's remote call fails, process_api_calls
\* returns (None, error): no record list at all, so none of the records of
\* earlier chunks, and the error is the non-empty message of the failing
\* call.
C3_ReturnsNoneAndError ==
    (CoreEnded /\ SomeFailure) =>
        /\ core_ret.t = "return"
        /\ core_ret.results.t = "None"
        /\ core_ret.error.t = "str"
        /\ Len(core_ret.error.v) > 0
        /\ LET last == responses[Len(responses)]
           IN  core_ret.error.v =
                   IF last.kind = "exception"
                   THEN NetworkMessage(last.detail)
                   ELSE StatusMessage(last.status_code)

C3_Witness ==
    /\ CoreEnded /\ SomeFailure
    /\ Len(calls) = 2
    /\ Len(all_results) = 2
    /\ core_ret.results.t = "None"

C5_ErrorOnlyOnRemoteFailure ==
    CoreEnded =>
        /\ Truthy(core_ret.error) <=> SomeFailure
        /\ ~SomeFailure => Len(calls) = CeilDiv(Len(b_numbers), 100)

\* C6: a non-200 response with code c, on whichever chunk, makes the
\* returned error the table's message for c when c is 400, 404, 411, 413 or
\* 500, and otherwise a message that contains the decimal literal of c.
C6_StatusClassification ==
    \A k \in 1..Len(responses) :
        LET c == responses[k].status_code
        IN  (responses[k].kind = "response" /\ c # 200) =>
                /\ core_ret.t = "return"
                /\ core_ret.error.t = "str"
                /\ IF c \in {400, 404, 411, 413, 500}
                   THEN core_ret.error.v = STATUS_CODE_MESSAGES[c]
                   ELSE /\ Contains(core_ret.error.v, ThreeDigits(c))
                        /\ \A m \in {400, 404, 411, 413, 500} :
                              core_ret.error.v # STATUS_CODE_MESSAGES[m]

C6_Witness ==
    /\ Len(responses) = 3
    /\ responses[3].status_code = 503
    /\ Contains(core_ret.error.v, <<"5", "0", "3">>)

\* C7: whatever a remote call meets (a connection failure, a timeout, a
\* non-200 status, a 200 response whose body is no mapping),
\* process_api_calls ends by returning a pair, never by an exception, and
\* the message of a transport failure contains the failure's description.
C7_NeverRaises ==
    CoreEnded =>
        /\ core_ret.t = "return"
        /\ responses[Len(responses)].kind = "exception" =>
              Contains(core_ret.error.v, responses[Len(responses)].detail)

\* C8: in both handlers an absent credential or an empty normalized list
\* ends the request with an error message and no remote call; every
\* invocation of process_api_calls has a non-empty credential and at least
\* one identifier; the credential is checked before the input is examined.
C8_GuardsPrecedeCore ==
    /\ (pc = "done" /\ (~Truthy(env_key) \/ Len(b_numbers) = 0)) =>
          /\ outcome.kind \in {"render_error", "flash"}
          /\ Len(calls) = 0
    /\ (pc \in {"core", "render"} \/ Len(calls) > 0) =>
          /\ env_key.t = "str" /\ Len(env_key.v) > 0
          /\ Len(b_numbers) >= 1
          /\ \A k \in 1..Len(calls) :
                calls[k].serviceKey.t = "str" /\ Len(calls[k].serviceKey.v) > 0
    /\ examined => (env_key.t = "str" /\ Len(env_key.v) > 0)

C8_Witness ==
    /\ pc = "done"
    /\ env_key = PyStr(<<>>)
    /\ Len(form_lines) = 2
    /\ outcome.kind = "render_error"
    /\ ~examined

\* C9: the normalized identifier of a raw token is the token without its
\* surrounding whitespace and without any hyphen or space, the other
\* characters kept in order; "123-45-67890", " 12345 67890 " and
\* "1234567890" all give "1234567890"; both handlers normalize alike.
C9_Normalization ==
    /\ b_numbers = RefNumbers(b_numbers_raw)
    /\ DirectNumbers(b_numbers_raw) = UploadNumbers(b_numbers_raw)
    /\ (pc \in {"core", "render", "done"} /\ b_numbers_raw = ExampleTokens) =>
          b_numbers = <<TenDigits, TenDigits, TenDigits>>

C9_Witness ==
    /\ pc = "core"
    /\ route = "upload_excel"
    /\ b_numbers_raw = ExampleTokens
    /\ b_numbers = <<TenDigits, TenDigits, TenDigits>>

\* C10: every identifier that reaches a remote call is non-empty, has no
\* leading or trailing whitespace, and is left unchanged by normalizing it
\* again.
C10_CallsCarryNormalizedIds ==
    \A k \in 1..Len(calls) :
        \A i \in 1..Len(calls[k].b_no) :
            LET id == calls[k].b_no[i]
            IN  /\ Len(id) > 0
                /\ id[1] \notin Whitespace
                /\ id[Len(id)] \notin Whitespace
                /\ Normalize(id) = id

====
